---- MODULE Spec2Model ----
(***************************************************************************)
(* MyQuoteMate (src/app.py): a single Flask route that takes a pasted or   *)
(* uploaded (PDF) tradie quote, stages the upload in a shared directory,   *)
(* extracts its text, calls a completion service and renders one page.     *)
(*                                                                         *)
(* Strings are sequences of one-character strings.  A value that may be    *)
(* None in Python is a sequence of length 0 (None) or 1 (the value).       *)
(***************************************************************************)
EXTENDS Integers, Sequences, FiniteSets, TLC

(* ------------------------------ bounds -------------------------------- *)
\* Number of request slots the server handles (threads of app.run).
NumRequests == 2
\* Largest number of pages of a document given to the extractor on its own.
MaxPages == 3
\* Longest page text of such a document.
MaxPageLen == 2

Requests == 1..NumRequests

(* --------------------------- Python values ---------------------------- *)
None == <<>>
Some(x) == <<x>>
\* Python's `x or ""` for an optional string.
OrEmpty(opt) == IF opt = None THEN <<>> ELSE opt[1]

NL == "\n"
\* Characters str.strip() removes (those of the model's alphabet).
Whitespace == {" ", NL}

RECURSIVE LStrip(_)
LStrip(s) ==
  IF s = <<>> THEN <<>>
  ELSE IF Head(s) \in Whitespace THEN LStrip(Tail(s)) ELSE s

RECURSIVE RStrip(_)
RStrip(s) ==
  IF s = <<>> THEN <<>>
  ELSE IF s[Len(s)] \in Whitespace THEN RStrip(SubSeq(s, 1, Len(s) - 1)) ELSE s

\* str.strip()
Strip(s) == RStrip(LStrip(s))

\* sep.join(parts)
RECURSIVE Join(_, _)
Join(sep, parts) ==
  IF parts = <<>> THEN <<>>
  ELSE IF Len(parts) = 1 THEN parts[1]
  ELSE parts[1] \o sep \o Join(sep, Tail(parts))

\* Length of the run of newlines that starts s.
RECURSIVE NewlineRun(_)
NewlineRun(s) ==
  IF s = <<>> \/ Head(s) # NL THEN 0 ELSE 1 + NewlineRun(Tail(s))

\* re.sub(r"\n{3,}", "\n\n", s): every maximal run of three or more
\* newlines becomes two newlines.
RECURSIVE CollapseNewlines(_)
CollapseNewlines(s) ==
  IF s = <<>> THEN <<>>
  ELSE LET k == NewlineRun(s) IN
       IF k >= 3 THEN <<NL, NL>> \o CollapseNewlines(SubSeq(s, k + 1, Len(s)))
       ELSE IF k >= 1 THEN SubSeq(s, 1, k) \o CollapseNewlines(SubSeq(s, k + 1, Len(s)))
       ELSE <<Head(s)>> \o CollapseNewlines(Tail(s))

(* ---------------------------- allowed_file ---------------------------- *)
ALLOWED_EXTENSIONS == { <<"p", "d", "f">> }

\* str.lower() on the model's alphabet.
LowerChar(c) ==
  CASE c = "P" -> "p"
    [] c = "D" -> "d"
    [] c = "F" -> "f"
    [] c = "A" -> "a"
    [] OTHER -> c

Lower(s) == [i \in 1..Len(s) |-> LowerChar(s[i])]

\* Index of the last "." of s, 0 when there is none.
LastDot(s) ==
  LET dots == {i \in 1..Len(s) : s[i] = "."} IN
  IF dots = {} THEN 0 ELSE CHOOSE i \in dots : \A j \in dots : j <= i

\* filename.rsplit(".", 1)[1], for a filename that contains a "."
Suffix(s) == SubSeq(s, LastDot(s) + 1, Len(s))

\* A variant that looks at the last three characters only (endswith("pdf")).
allowed_file_endswith(filename) ==
  /\ Len(filename) >= 3
  /\ Lower(SubSeq(filename, Len(filename) - 2, Len(filename))) \in ALLOWED_EXTENSIONS

allowed_file(filename) ==
  /\ LastDot(filename) # 0
  /\ Lower(Suffix(filename)) \in ALLOWED_EXTENSIONS

(* --------------------------- secure_filename -------------------------- *)
\* werkzeug.utils.secure_filename on ASCII names: path separators become
\* spaces, whitespace runs become one "_", characters outside
\* [A-Za-z0-9_.-] are removed, and leading/trailing "." and "_" are
\* stripped.
SafeChars == {"a", "b", "p", "d", "f", "t", "x", "A", "P", "D", "F", "_", ".", "-"}

SepToSpace(s) == [i \in 1..Len(s) |-> IF s[i] = "/" THEN " " ELSE s[i]]

\* "_".join(s.split())
RECURSIVE Underscore(_)
Underscore(s) ==
  IF s = <<>> THEN <<>>
  ELSE IF Head(s) \in Whitespace
       THEN (IF LStrip(s) = <<>> THEN <<>> ELSE <<"_">> \o Underscore(LStrip(s)))
       ELSE <<Head(s)>> \o Underscore(Tail(s))

SplitJoin(s) == Underscore(LStrip(s))

OnlySafe(s) == SelectSeq(s, LAMBDA c : c \in SafeChars)

RECURSIVE StripDots(_)
StripDots(s) ==
  IF s = <<>> THEN <<>>
  ELSE IF Head(s) \in {".", "_"} THEN StripDots(Tail(s))
  ELSE IF s[Len(s)] \in {".", "_"} THEN StripDots(SubSeq(s, 1, Len(s) - 1))
  ELSE s

secure_filename(filename) == StripDots(OnlySafe(SplitJoin(SepToSpace(filename))))

(* ------------------------ try_extract_pdf_text ------------------------ *)
\* A stored file as pypdf sees it: PdfReader(path) succeeds or raises, and
\* each page's extract_text() returns a string, returns None, or raises.
Page(raises, txt) == [raises |-> raises, txt |-> txt]
Doc(opens, pages) == [opens |-> opens, pages |-> pages]

\* The texts of the pages whose text is not whitespace only, in order.
RECURSIVE Parts(_)
Parts(pages) ==
  IF pages = <<>> THEN <<>>
  ELSE LET txt == OrEmpty(Head(pages).txt) IN
       IF Strip(txt) # <<>> THEN <<txt>> \o Parts(Tail(pages)) ELSE Parts(Tail(pages))

\* TRUE when the parsing library raises somewhere in the try block.
Raises(doc) == ~doc.opens \/ \E i \in 1..Len(doc.pages) : doc.pages[i].raises

\* A variant that puts a blank line between pages.
JoinPagesBlank(parts) == Join(<<NL, NL>>, parts)

JoinPages(parts) == Join(<<NL>>, parts)

try_extract_pdf_text(doc) ==
  IF Raises(doc) THEN <<>>
  ELSE CollapseNewlines(Strip(JoinPages(Parts(doc.pages))))

(* ------------------------------- HTML --------------------------------- *)
\* Jinja truthiness of an optional string: None and "" are false.
Truthy(opt) == opt # None /\ opt[1] # <<>>

\* render_template_string(HTML, ...): the parts of the page that depend on
\* the context.  The template never reads a trade value: no <option> of the
\* trade <select> is marked selected, so the select shows its first option,
\* whose value is "".
render_template_string(ctx) ==
  [ error_block      |-> IF Truthy(ctx.error) THEN ctx.error ELSE None,
    result_block     |-> IF Truthy(ctx.result) THEN ctx.result ELSE None,
    generated_at     |-> Truthy(ctx.result) /\ ctx.generated_at,
    placeholder      |-> ~Truthy(ctx.result),
    trade_value      |-> <<>>,
    location_value   |-> ctx.location,
    quote_text_value |-> ctx.quote_text ]

Context(result, error, qt, loc, gen) ==
  [result |-> result, error |-> error, quote_text |-> qt, location |-> loc,
   generated_at |-> gen]

ERR_PDF == <<"Only PDF files are allowed.">>
ERR_TEXT == <<"Please paste quote text. PDF upload is optional, and scanned PDFs may not be readable.">>
ERR_KEY == <<"Server is missing OPENAI_API_KEY.">>
\* f"AI request failed: {e}"
ErrAi(e) == <<"AI request failed: ", e>>

\* A variant that also passes the message as the result.
ErrorPageWithResult(err, qt, loc) ==
  render_template_string(Context(Some(err), Some(err), qt, loc, FALSE))

\* The page an error return of index renders.
ErrorPage(err, qt, loc) ==
  render_template_string(Context(None, Some(err), qt, loc, FALSE))

\* The page the successful return of index renders.
ResultPage(result, qt, loc) ==
  render_template_string(Context(Some(result), None, qt, loc, TRUE))

\* The page the GET return of index renders.
InitialPage == render_template_string(Context(None, None, <<>>, <<>>, FALSE))

(* --------------------------- prompt assembly -------------------------- *)
OrText(s, placeholder) == IF s # <<>> THEN s ELSE <<placeholder>>

UserPayload(tr, loc, qt, pdf) ==
  [ trade      |-> OrText(tr, "Not provided"),
    location   |-> OrText(loc, "Not provided"),
    quote_text |-> OrText(qt, "(not provided)"),
    pdf_text   |-> OrText(pdf, "(no readable text extracted from PDF)") ]

(* ------------------------- completion service ------------------------- *)
\* What client.responses.create can do: raise, return a response without
\* text output, or return a response with text output.
Failures == {"Connection error.", "Incorrect API key provided.", "Rate limit reached."}
OutputTexts == { <<"v">>, <<" ", "v", NL>>, <<" ">>, <<>> }
Completions ==
  { [raises |-> TRUE, message |-> m, output_text |-> None] : m \in Failures }
  \cup { [raises |-> FALSE, message |-> "", output_text |-> None] }
  \cup { [raises |-> FALSE, message |-> "", output_text |-> Some(t)] : t \in OutputTexts }

\* The exception, if any, the try block of index ends with: the failure of
\* the call, or the AttributeError of None.strip().
Caught(c) ==
  IF c.raises THEN Some(c.message)
  ELSE IF c.output_text = None THEN Some("'NoneType' object has no attribute 'strip'")
  ELSE None

(* ------------------------------- state -------------------------------- *)
VARIABLES
  environ,       \* os.getenv("OPENAI_API_KEY"): None or a string
  uploads,       \* the uploads directory: stored name -> file
  pc,            \* per request: where the handler is
  request,       \* per request: method, form fields and uploaded file
  trade, location, quote_text, pdf_text, save_path,   \* locals of index
  client,        \* per request: OpenAI(...) has been constructed
  user_payload,  \* per request: the user message sent, if any
  calls,         \* per request: number of client.responses.create calls
  completion,    \* per request: what the completion service did, if called
  response,      \* per request: the page returned, if any
  reader,        \* a document handed to try_extract_pdf_text on its own
  extracted      \* and the text extracted from it, if any

handler == <<pc, request, trade, location, quote_text, pdf_text, save_path,
             client, user_payload, calls, completion, response>>
vars == <<environ, uploads, handler, reader, extracted>>

NoRequest == [method |-> "NONE",
              form |-> [trade |-> None, location |-> None, quote_text |-> None],
              file |-> None]

Terminal == {"Rejected", "Rendered"}

(* ------------------------------ inputs -------------------------------- *)
Keys == { None, Some(<<>>), Some(<<" ">>), Some(<<" ", "k">>) }

Corrupt == Doc(FALSE, <<>>)
Scanned == Doc(TRUE, <<Page(FALSE, None)>>)
LateFailure == Doc(TRUE, <<Page(FALSE, Some(<<"x">>)), Page(TRUE, None)>>)
DocX == Doc(TRUE, <<Page(FALSE, Some(<<"x">>))>>)
DocY == Doc(TRUE, <<Page(FALSE, Some(<<"y", NL>>)), Page(FALSE, Some(<<"z">>))>>)

File(filename, content) == [filename |-> filename, content |-> content]

\* Filenames index turns away: no dot at all, or a last suffix that is not pdf.
BadNames ==
  { <<"a", ".", "t", "x", "t">>,
    <<"p", "d", "f">>,
    <<"a", ".", "p", "d", "f", ".", "t", "x", "t">> }

Forms(trades, locations, texts) ==
  { [trade |-> t, location |-> l, quote_text |-> q] :
      t \in trades, l \in locations, q \in texts }

Posts(forms, files) ==
  { [method |-> "POST", form |-> fm, file |-> fl] : fm \in forms, fl \in files }

Get == [method |-> "GET", form |-> NoRequest.form, file |-> None]

\* Requests of the one-at-a-time server.  The content of a file index never
\* stages is not varied.
SerialInputs ==
  {Get} \cup
  Posts(Forms({None, Some(<<" ", "t">>)},
              {None, Some(<<"h", " ">>)},
              {None, Some(<<" ">>), Some(<<" ", "q">>)}),
        {None}
        \cup { Some(File(n, DocX)) : n \in BadNames \cup { <<>> } }
        \cup { Some(File(n, DocX)) :
                 n \in { <<"a", ".", "p", "d", "f">>, <<"/", "a", ".", "p", "d", "f">> } }
        \cup { Some(File(<<"a", ".", "P", "D", "F">>, d)) :
                 d \in {Corrupt, Scanned, LateFailure, DocX} })

\* Requests of the threaded server: two of the filenames are stored under
\* the same name.
ThreadedInputs ==
  {Get} \cup
  Posts(Forms({None}, {None}, {None, Some(<<"q">>)}),
        {None}
        \cup { Some(File(<<"a", ".", "t", "x", "t">>, DocX)) }
        \cup { Some(File(n, d)) :
                 n \in { <<"a", ".", "p", "d", "f">>, <<"/", "a", ".", "p", "d", "f">> },
                 d \in {Corrupt, DocX, DocY} })

(* ------------------------------- Init --------------------------------- *)
Idle ==
  /\ uploads = <<>>
  /\ pc = [r \in Requests |-> "Idle"]
  /\ request = [r \in Requests |-> NoRequest]
  /\ trade = [r \in Requests |-> <<>>]
  /\ location = [r \in Requests |-> <<>>]
  /\ quote_text = [r \in Requests |-> <<>>]
  /\ pdf_text = [r \in Requests |-> <<>>]
  /\ save_path = [r \in Requests |-> None]
  /\ client = [r \in Requests |-> FALSE]
  /\ user_payload = [r \in Requests |-> None]
  /\ calls = [r \in Requests |-> 0]
  /\ completion = [r \in Requests |-> None]
  /\ response = [r \in Requests |-> None]

Init ==
  /\ environ \in Keys
  /\ Idle
  /\ reader = Doc(TRUE, <<>>)
  /\ extracted = None

(* ------------------------------ index --------------------------------- *)
\* `f and f.filename`: a file part was sent and it has a filename.
HasUpload(r) == request[r].file # None /\ request[r].file[1].filename # <<>>

\* A variant that looks for an uploaded file instead of its extracted text.
NoTextNoFile(r) == quote_text[r] = <<>> /\ request[r].file = None

\* `not quote_text and not pdf_text`
NoText(r) == quote_text[r] = <<>> /\ pdf_text[r] = <<>>

\* A variant without the strip().
api_key_unstripped == OrEmpty(environ)

\* (os.getenv("OPENAI_API_KEY") or "").strip()
api_key == Strip(OrEmpty(environ))

\* Leaving index with a page.
Return(r, state, page) ==
  /\ pc' = [pc EXCEPT ![r] = state]
  /\ response' = [response EXCEPT ![r] = Some(page)]

\* A request arrives while no other is being handled.
ReceiveSerial(r) ==
  /\ \A q \in Requests : pc[q] = "Idle"
  /\ \E req \in SerialInputs : request' = [request EXCEPT ![r] = req]
  /\ pc' = [pc EXCEPT ![r] = "Start"]
  /\ UNCHANGED <<environ, uploads, trade, location, quote_text, pdf_text, save_path,
                 client, user_payload, calls, completion, response, reader, extracted>>

\* A request arrives at a free thread, whatever the other threads do.
ReceiveThreaded(r) ==
  /\ pc[r] = "Idle"
  /\ \E req \in ThreadedInputs : request' = [request EXCEPT ![r] = req]
  /\ pc' = [pc EXCEPT ![r] = "Start"]
  /\ UNCHANGED <<environ, uploads, trade, location, quote_text, pdf_text, save_path,
                 client, user_payload, calls, completion, response, reader, extracted>>

\* request.method == "GET": the empty form.
RenderGet(r) ==
  /\ pc[r] = "Start"
  /\ request[r].method = "GET"
  /\ Return(r, "Rendered", InitialPage)
  /\ UNCHANGED <<environ, uploads, request, trade, location, quote_text, pdf_text,
                 save_path, client, user_payload, calls, completion, reader, extracted>>

\* The three form fields, each `(request.form.get(...) or "").strip()`.
CollectInput(r) ==
  /\ pc[r] = "Start"
  /\ request[r].method = "POST"
  /\ trade' = [trade EXCEPT ![r] = Strip(OrEmpty(request[r].form.trade))]
  /\ location' = [location EXCEPT ![r] = Strip(OrEmpty(request[r].form.location))]
  /\ quote_text' = [quote_text EXCEPT ![r] = Strip(OrEmpty(request[r].form.quote_text))]
  /\ pdf_text' = [pdf_text EXCEPT ![r] = <<>>]
  /\ pc' = [pc EXCEPT ![r] = "CollectingInput"]
  /\ UNCHANGED <<environ, uploads, request, save_path, client, user_payload, calls, completion,
                 response, reader, extracted>>

\* No file part, or one without a filename.
NoUpload(r) ==
  /\ pc[r] = "CollectingInput"
  /\ ~HasUpload(r)
  /\ pc' = [pc EXCEPT ![r] = "Validating"]
  /\ UNCHANGED <<environ, uploads, request, trade, location, quote_text, pdf_text,
                 save_path, client, user_payload, calls, completion, response, reader, extracted>>

\* `if not allowed_file(f.filename): return ...`
RejectFileType(r) ==
  /\ pc[r] = "CollectingInput"
  /\ HasUpload(r)
  /\ ~allowed_file(request[r].file[1].filename)
  /\ Return(r, "Rejected", ErrorPage(ERR_PDF, quote_text[r], location[r]))
  /\ UNCHANGED <<environ, uploads, request, trade, location, quote_text, pdf_text,
                 save_path, client, user_payload, calls, completion, reader, extracted>>

\* `f.save(os.path.join(UPLOAD_FOLDER, secure_filename(f.filename)))`
SaveUpload(r) ==
  /\ pc[r] = "CollectingInput"
  /\ HasUpload(r)
  /\ allowed_file(request[r].file[1].filename)
  /\ LET filename == secure_filename(request[r].file[1].filename) IN
       /\ save_path' = [save_path EXCEPT ![r] = Some(filename)]
       /\ uploads' = (filename :> request[r].file[1].content) @@ uploads
  /\ pc' = [pc EXCEPT ![r] = "ExtractingPdf"]
  /\ UNCHANGED <<environ, request, trade, location, quote_text, pdf_text, client,
                 user_payload, calls, completion, response, reader, extracted>>

\* `pdf_text = try_extract_pdf_text(save_path)`: reads what the path holds now.
ExtractPdf(r) ==
  /\ pc[r] = "ExtractingPdf"
  /\ pdf_text' = [pdf_text EXCEPT ![r] = try_extract_pdf_text(uploads[save_path[r][1]])]
  /\ pc' = [pc EXCEPT ![r] = "Validating"]
  /\ UNCHANGED <<environ, uploads, request, trade, location, quote_text, save_path,
                 client, user_payload, calls, completion, response, reader, extracted>>

\* `if not quote_text and not pdf_text: return ...`
RejectNoText(r) ==
  /\ pc[r] = "Validating"
  /\ NoText(r)
  /\ Return(r, "Rejected", ErrorPage(ERR_TEXT, quote_text[r], location[r]))
  /\ UNCHANGED <<environ, uploads, request, trade, location, quote_text, pdf_text,
                 save_path, client, user_payload, calls, completion, reader, extracted>>

\* `if not api_key: return ...`
RejectNoKey(r) ==
  /\ pc[r] = "Validating"
  /\ ~NoText(r)
  /\ api_key = <<>>
  /\ Return(r, "Rejected", ErrorPage(ERR_KEY, quote_text[r], location[r]))
  /\ UNCHANGED <<environ, uploads, request, trade, location, quote_text, pdf_text,
                 save_path, client, user_payload, calls, completion, reader, extracted>>

\* `client = OpenAI(api_key=api_key)` and the user message.
BuildClient(r) ==
  /\ pc[r] = "Validating"
  /\ ~NoText(r)
  /\ api_key # <<>>
  /\ client' = [client EXCEPT ![r] = TRUE]
  /\ user_payload' = [user_payload EXCEPT ![r] =
        Some(UserPayload(trade[r], location[r], quote_text[r], pdf_text[r]))]
  /\ pc' = [pc EXCEPT ![r] = "CallingModel"]
  /\ UNCHANGED <<environ, uploads, request, trade, location, quote_text, pdf_text,
                 save_path, calls, completion, response, reader, extracted>>

\* A variant whose message leaves out the exception.
AfterCallGeneric(c, qt, loc) ==
  IF Caught(c) = None
  THEN ResultPage(Strip(c.output_text[1]), qt, loc)
  ELSE ErrorPage(<<"AI request failed.">>, qt, loc)

\* The page the try/except around the call ends with.
AfterCall(c, qt, loc) ==
  IF Caught(c) = None
  THEN ResultPage(Strip(c.output_text[1]), qt, loc)
  ELSE ErrorPage(ErrAi(Caught(c)[1]), qt, loc)

\* A variant that calls again after a failure.
AfterCallStateRetry(c) == IF Caught(c) = None THEN "Rendered" ELSE "CallingModel"

\* The state the call leaves the request in.
AfterCallState(c) == IF Caught(c) = None THEN "Rendered" ELSE "Rejected"

\* `client.responses.create(...)`, once, inside try/except Exception.
CallModel(r) ==
  /\ pc[r] = "CallingModel"
  /\ calls' = [calls EXCEPT ![r] = @ + 1]
  /\ \E c \in Completions :
       /\ completion' = [completion EXCEPT ![r] = Some(c)]
       /\ Return(r, AfterCallState(c), AfterCall(c, quote_text[r], location[r]))
  /\ UNCHANGED <<environ, uploads, request, trade, location, quote_text, pdf_text,
                 save_path, client, user_payload, reader, extracted>>

\* The response has been sent; the handler's frame is gone.  Staged files stay.
Close(r) ==
  /\ pc[r] \in Terminal
  /\ pc' = [pc EXCEPT ![r] = "Idle"]
  /\ request' = [request EXCEPT ![r] = NoRequest]
  /\ trade' = [trade EXCEPT ![r] = <<>>]
  /\ location' = [location EXCEPT ![r] = <<>>]
  /\ quote_text' = [quote_text EXCEPT ![r] = <<>>]
  /\ pdf_text' = [pdf_text EXCEPT ![r] = <<>>]
  /\ save_path' = [save_path EXCEPT ![r] = None]
  /\ client' = [client EXCEPT ![r] = FALSE]
  /\ user_payload' = [user_payload EXCEPT ![r] = None]
  /\ calls' = [calls EXCEPT ![r] = 0]
  /\ completion' = [completion EXCEPT ![r] = None]
  /\ response' = [response EXCEPT ![r] = None]
  /\ UNCHANGED <<environ, uploads, reader, extracted>>

\* One step of index for request r.
Handle(r) ==
  \/ RenderGet(r)
  \/ CollectInput(r)
  \/ NoUpload(r)
  \/ RejectFileType(r)
  \/ SaveUpload(r)
  \/ ExtractPdf(r)
  \/ RejectNoText(r)
  \/ RejectNoKey(r)
  \/ BuildClient(r)
  \/ CallModel(r)

(* ---------------------------- specifications -------------------------- *)
\* The server handling one request at a time.
Next == \E r \in Requests : ReceiveSerial(r) \/ Handle(r) \/ Close(r)
Spec == Init /\ [][Next]_vars

\* The same, where a request that has arrived is handled to its end and the
\* completion service answers.
FairSpec == Spec /\ \A r \in Requests : WF_vars(Handle(r))

\* The threaded server (app.run): requests are handled concurrently.
NextThreaded == \E r \in Requests : ReceiveThreaded(r) \/ Handle(r) \/ Close(r)
SpecThreaded == Init /\ [][NextThreaded]_vars

(* ------------------- try_extract_pdf_text on its own ------------------ *)
Alphabet == {"a", NL}

\* Page texts: every text over the alphabet, and some with spaces.
PageTexts ==
  UNION { [1..n -> Alphabet] : n \in 0..MaxPageLen }
  \cup { <<" ">>, <<" ", "a">>, <<"a", " ">> }

\* What one page can do: return a text, return None, or raise.
PageValues ==
  { Page(FALSE, Some(t)) : t \in PageTexts } \cup { Page(FALSE, None), Page(TRUE, None) }

\* The documents of at most n pages, and the one that cannot be opened.
ExtractDocs(n) ==
  {Corrupt} \cup { Doc(TRUE, ps) : ps \in UNION { [1..k -> PageValues] : k \in 0..n } }

InitExtract ==
  /\ environ = None
  /\ Idle
  /\ reader \in ExtractDocs(MaxPages)
  /\ extracted = None

\* A call of try_extract_pdf_text on the document.
Extract ==
  /\ extracted = None
  /\ extracted' = Some(try_extract_pdf_text(reader))
  /\ UNCHANGED <<environ, uploads, handler, reader>>

SpecExtract == InitExtract /\ [][Extract]_vars

(* ======================= properties of the extractor ================== *)
NotBlank(t) == \E j \in 1..Len(t) : t[j] \notin Whitespace

\* The texts of the pages that hold something other than whitespace.
KeptTexts(doc) ==
  SelectSeq([i \in 1..Len(doc.pages) |-> OrEmpty(doc.pages[i].txt)], NotBlank)

\* Where the k-th of the texts starts when gap newlines separate them.
RECURSIVE Before(_, _, _)
Before(parts, k, gap) ==
  IF k = 1 THEN 0 ELSE Before(parts, k - 1, gap) + Len(parts[k - 1]) + gap

\* The texts laid out in order with gap newlines between neighbours.
Layout(parts, gap) ==
  IF parts = <<>> THEN <<>>
  ELSE LET n == Len(parts)
           total == Before(parts, n, gap) + Len(parts[n])
           Owns(k, p) == Before(parts, k, gap) < p /\ p <= Before(parts, k, gap) + Len(parts[k])
       IN [p \in 1..total |->
             IF \E k \in 1..n : Owns(k, p)
             THEN LET k == CHOOSE k \in 1..n : Owns(k, p) IN parts[k][p - Before(parts, k, gap)]
             ELSE NL]

NoTripleNewline(t) ==
  \A i \in 1..(Len(t) - 2) : ~(t[i] = NL /\ t[i + 1] = NL /\ t[i + 2] = NL)

Trimmed(t) == t = <<>> \/ (t[1] \notin Whitespace /\ t[Len(t)] \notin Whitespace)

Ink(t) == SelectSeq(t, LAMBDA c : c \notin Whitespace)

Parsed(doc) == doc.opens /\ \A i \in 1..Len(doc.pages) : ~doc.pages[i].raises

\* C9 as stated: for every sequence of page texts the result is the texts
\* of the non-empty pages in document order with a single blank line (two
\* newlines) between consecutive ones, runs of blank lines collapsed and the
\* whole trimmed.
C9_BlankLineBetweenPages ==
  (extracted # None /\ Parsed(reader)) =>
    extracted[1] = CollapseNewlines(Strip(Layout(KeptTexts(reader), 2)))

\* C9 (amended): for every sequence of page texts the result is the texts of
\* the pages that are not whitespace only, in document order with a single
\* newline between consecutive ones, trimmed, with every run of three or
\* more newlines replaced by two; it never contains three consecutive
\* newlines, has no surrounding whitespace, keeps every non-whitespace
\* character in order, and is the plain layout when that needs no trimming
\* or collapsing.
C9_NewlineBetweenPages ==
  (extracted # None /\ Parsed(reader)) =>
    LET raw == Layout(KeptTexts(reader), 1)
        out == extracted[1]
    IN /\ out = CollapseNewlines(Strip(raw))
       /\ NoTripleNewline(out)
       /\ Trimmed(out)
       /\ Ink(out) = Ink(raw)
       /\ (Trimmed(raw) /\ NoTripleNewline(raw)) => out = raw

\* Two kept pages around a skipped one, whose layout needs collapsing.
C9_Witness ==
  /\ extracted # None
  /\ Parsed(reader)
  /\ Len(reader.pages) = 3
  /\ Len(KeptTexts(reader)) = 2
  /\ ~NoTripleNewline(Layout(KeptTexts(reader), 1))
  /\ extracted[1] # Layout(KeptTexts(reader), 1)

(* ======================== properties of index ========================= *)
Posted(r) == request[r].method = "POST"
PageOf(r) == response[r][1]
Blank(t) == \A i \in 1..Len(t) : t[i] \in Whitespace
Pasted(r) == OrEmpty(request[r].form.quote_text)
NamedUpload(r) == request[r].file # None /\ request[r].file[1].filename # <<>>
UploadName(r) == request[r].file[1].filename
UploadDoc(r) == request[r].file[1].content

\* The name ends in ".pdf", in any letter case.
EndsWithDotPdf(n) ==
  /\ Len(n) >= 4
  /\ n[Len(n) - 3] = "."
  /\ n[Len(n) - 2] \in {"p", "P"}
  /\ n[Len(n) - 1] \in {"d", "D"}
  /\ n[Len(n)] \in {"f", "F"}

Shows(r, err) == PageOf(r).error_block = Some(err) /\ PageOf(r).result_block = None
NeverCalled(r) == calls[r] = 0 /\ ~client[r] /\ user_payload[r] = None /\ completion[r] = None

\* C1 as stated: a POST whose trimmed pasted text and extracted text are
\* both empty gets the 'Please paste quote text' error and makes no
\* completion call, whatever the uploaded filename.
C1_AlwaysPleasePaste ==
  \A r \in Requests :
    (pc[r] \in Terminal /\ Posted(r) /\ Blank(Pasted(r)) /\ pdf_text[r] = <<>>) =>
      (Shows(r, ERR_TEXT) /\ NeverCalled(r))

\* C1 (amended): a POST whose trimmed pasted text and extracted text are
\* both empty never reaches the completion service, and its response is the
\* 'Please paste quote text' error, except that an upload with a non-empty
\* filename not ending in .pdf gets the 'Only PDF files are allowed' error.
C1_NoTextNoCall ==
  \A r \in Requests :
    (pc[r] \in Terminal /\ Posted(r) /\ Blank(Pasted(r)) /\ pdf_text[r] = <<>>) =>
      /\ NeverCalled(r)
      /\ pc[r] = "Rejected"
      /\ IF NamedUpload(r) /\ ~EndsWithDotPdf(UploadName(r))
         THEN Shows(r, ERR_PDF)
         ELSE Shows(r, ERR_TEXT)

\* A scanned PDF and whitespace-only pasted text, with a credential set.
C1_Witness ==
  \E r \in Requests :
    /\ pc[r] = "Rejected"
    /\ api_key # <<>>
    /\ request[r].form.quote_text = Some(<<" ">>)
    /\ NamedUpload(r) /\ EndsWithDotPdf(UploadName(r)) /\ UploadDoc(r) = Scanned
    /\ Shows(r, ERR_TEXT)

\* C2: a POST whose upload has a non-empty filename that does not end in
\* .pdf (any letter case; names without a dot included) is answered with
\* 'Only PDF files are allowed', and in that request nothing is staged or
\* extracted and no completion call is made.
C2_OnlyPdf ==
  \A r \in Requests :
    (Posted(r) /\ NamedUpload(r) /\ ~EndsWithDotPdf(UploadName(r)) /\ pc[r] # "Start") =>
      /\ pc[r] \in {"CollectingInput", "Rejected"}
      /\ save_path[r] = None
      /\ pdf_text[r] = <<>>
      /\ NeverCalled(r)
      /\ pc[r] = "Rejected" => Shows(r, ERR_PDF)

\* A file named "pdf", without a dot, rejected.
C2_Witness ==
  \E r \in Requests :
    /\ pc[r] = "Rejected"
    /\ NamedUpload(r) /\ UploadName(r) = <<"p", "d", "f">>
    /\ Shows(r, ERR_PDF)

\* The credential is unset, empty or whitespace only.
KeyAbsent == environ = None \/ Blank(environ[1])

\* The request passes input validation.
ValidInput(r) ==
  /\ NamedUpload(r) => EndsWithDotPdf(UploadName(r))
  /\ ~Blank(Pasted(r)) \/ pdf_text[r] # <<>>

\* C3: with the credential absent, no client is ever constructed or
\* invoked, and a POST that passes input validation ends with the
\* server-configuration error.
C3_NoKeyNoCall ==
  KeyAbsent =>
    \A r \in Requests :
      /\ NeverCalled(r)
      /\ pc[r] \notin {"CallingModel", "Rendered"} \/ ~Posted(r)
      /\ (pc[r] \in Terminal /\ Posted(r) /\ ValidInput(r)) => Shows(r, ERR_KEY)

\* A whitespace-only credential, and text that comes from the PDF alone.
C3_Witness ==
  \E r \in Requests :
    /\ environ = Some(<<" ">>)
    /\ pc[r] = "Rejected"
    /\ Blank(Pasted(r)) /\ pdf_text[r] # <<>>
    /\ Shows(r, ERR_KEY)

\* The completion call failed: it raised, or its response has no text.
Failed(c) == c.raises \/ c.output_text = None

\* C4: whenever the completion call fails, the request ends with a page
\* whose error is 'AI request failed: ' followed by the failure's
\* description, and that shows no result.
C4_FailureCaught ==
  \A r \in Requests :
    (completion[r] # None /\ Failed(completion[r][1])) =>
      /\ pc[r] = "Rejected"
      /\ response[r] # None
      /\ PageOf(r).result_block = None
      /\ ~PageOf(r).generated_at
      /\ PageOf(r).error_block # None
      /\ LET err == PageOf(r).error_block[1] IN
           /\ Len(err) = 2
           /\ err[1] = "AI request failed: "
           /\ err[2] # ""
           /\ completion[r][1].raises => err[2] = completion[r][1].message

\* A response without text output.
C4_Witness ==
  \E r \in Requests :
    /\ completion[r] # None
    /\ ~completion[r][1].raises /\ completion[r][1].output_text = None
    /\ pc[r] = "Rejected"

\* C5 as stated (values compared after trimming, as index keeps them): every
\* error page of a POST echoes the trade, location and pasted text the user
\* entered.
C5_EchoesAllThree ==
  \A r \in Requests :
    (pc[r] = "Rejected" /\ Posted(r)) =>
      /\ PageOf(r).trade_value = Strip(OrEmpty(request[r].form.trade))
      /\ PageOf(r).location_value = Strip(OrEmpty(request[r].form.location))
      /\ PageOf(r).quote_text_value = Strip(OrEmpty(request[r].form.quote_text))

\* The render states a page shows.
RenderStates(page) ==
  { s \in {"initial", "error", "result"} :
      \/ s = "initial" /\ page.error_block = None /\ page.result_block = None /\ page.placeholder
      \/ s = "error" /\ page.error_block # None
      \/ s = "result" /\ page.result_block # None }

C7_OwnUpload ==
  \A r \in Requests :
    (save_path[r] # None /\ pc[r] \in {"Validating", "CallingModel", "Rejected", "Rendered"}) =>
      /\ pdf_text[r] = try_extract_pdf_text(UploadDoc(r))
      /\ user_payload[r] # None =>
           user_payload[r][1].pdf_text =
             OrText(try_extract_pdf_text(UploadDoc(r)), "(no readable text extracted from PDF)")

\* The document cannot be parsed, or holds no text.
Unparseable(doc) == ~Parsed(doc) \/ KeptTexts(doc) = <<>>

\* C8: for an uploaded PDF that cannot be parsed the extracted text is
\* empty and the request goes on to validation: with pasted text to the
\* credential check and the model call, without it to the 'Please paste
\* quote text' error.
C8_UnparseableIsEmpty ==
  \A r \in Requests :
    ( /\ Posted(r) /\ NamedUpload(r) /\ EndsWithDotPdf(UploadName(r))
      /\ Unparseable(UploadDoc(r))
      /\ pc[r] \in {"Validating", "CallingModel", "Rejected", "Rendered"} ) =>
      /\ pdf_text[r] = <<>>
      /\ (pc[r] \in Terminal /\ Blank(Pasted(r))) => (Shows(r, ERR_TEXT) /\ NeverCalled(r))
      /\ (pc[r] \in Terminal /\ ~Blank(Pasted(r))) => (Shows(r, ERR_KEY) \/ calls[r] = 1)

\* The transitions of the per-request state machine as the claim gives them.
StatedEdges ==
  { <<"Start", "CollectingInput">>,
    <<"CollectingInput", "ExtractingPdf">>,
    <<"CollectingInput", "Validating">>,
    <<"ExtractingPdf", "Validating">>,
    <<"Validating", "Rejected">>,
    <<"Validating", "CallingModel">>,
    <<"CallingModel", "Rejected">>,
    <<"CallingModel", "Rendered">> }

\* A POST moves along the given transitions only.
Along(edges) ==
  \A r \in Requests :
    (Posted(r) /\ pc'[r] # pc[r] /\ pc'[r] # "Idle") => <<pc[r], pc'[r]>> \in edges

\* C10 as stated: a POST moves only along Start, CollectingInput, optional
\* ExtractingPdf, Validating, then Rejected or CallingModel followed by
\* Rejected or Rendered; Rejected is entered only from Validating or
\* CallingModel.
C10_StatedMachine == [][Along(StatedEdges)]_vars

\* C10 (amended): a POST makes a single forward pass along those
\* transitions, where Rejected is entered from CollectingInput (disallowed
\* file type), Validating or CallingModel; the completion service is called
\* at most once and only on leaving CallingModel; a page is returned exactly
\* in the terminal states, with an error in Rejected and none in Rendered;
\* and every POST received eventually reaches a terminal state.
C10_SinglePass ==
  /\ [][Along(StatedEdges \cup { <<"CollectingInput", "Rejected">> })]_vars
  /\ [][\A r \in Requests :
          calls'[r] > calls[r] => (pc[r] = "CallingModel" /\ pc'[r] \in Terminal)]_vars
  /\ [](\A r \in Requests :
          /\ calls[r] <= 1
          /\ (pc[r] \in Terminal) = (response[r] # None)
          /\ pc[r] = "Rejected" => PageOf(r).error_block # None
          /\ pc[r] = "Rendered" => PageOf(r).error_block = None)
  /\ \A r \in Requests :
       (pc[r] = "Start" /\ Posted(r)) ~> (pc[r] \in Terminal /\ response[r] # None)

\* A POST rejected for its file type, straight from CollectingInput.
C10_Witness ==
  \E r \in Requests :
    /\ pc[r] = "Rejected"
    /\ Posted(r)
    /\ save_path[r] = None
    /\ Shows(r, ERR_PDF)

====
